---- MODULE Spec2Model ----
(***************************************************************************)
(* lotus: a test runner for Logstash rule sets.  The model covers the run  *)
(* coordinator (lib.rs default_runner), the test driver (runner.rs         *)
(* run_tests / run_single_test / TestContext), the health check            *)
(* (docker.rs healthy), the response collector (server.rs) and the bounded *)
(* mpsc channel between collector and driver.  The Docker daemon, the file *)
(* system and the Logstash engine in the container are the environment:    *)
(* every call into them has a nondeterministic outcome.                    *)
(***************************************************************************)
EXTENDS Integers, Sequences, FiniteSets

(* ------------------------------ bounds -------------------------------- *)
\* most test cases in one run
MaxCases == 2
\* most requests the engine posts to the collector in one run
MaxEvents == 2
\* largest `retries` argument tried on healthy() in SpecHealth
MaxRetries == 4
\* largest `delay` argument (in seconds) tried on healthy() in SpecHealth
MaxDelay == 2
\* most rule files passed to build_image_archive in SpecArchive
MaxRules == 2
\* builds of the archive from the same inputs in SpecArchive
MaxBuilds == 2
\* most events in the build event stream in SpecBuild
MaxStream == 3

(* ------------------------- program constants -------------------------- *)
\* lib.rs: const CHANNEL_CAPACITY: usize = 32
CHANNEL_CAPACITY == 32
\* runner.rs TestContext::new: let retries = 10
HEALTH_RETRIES == 10
\* runner.rs TestContext::new: let delay = Duration::from_secs(10)
HEALTH_DELAY == 10

(* ----------------------------- JSON values ----------------------------- *)
\* serde_json::Value: a type tag and the value; an object is a function
\* from its keys to values, an array a sequence of values.
JNull == [t |-> "null", v |-> "null"]
JBool(b) == [t |-> "bool", v |-> b]
JNum(n) == [t |-> "number", v |-> n]
JStr(s) == [t |-> "string", v |-> s]
JArr(a) == [t |-> "array", v |-> a]
JObj(o) == [t |-> "object", v |-> o]

DocEmpty == JObj([k \in {} |-> JNull])
DocDummy == JObj([k \in {"dummy"} |-> JStr("true")])
DocExtra == JObj([k \in {"dummy", "host"} |->
                    IF k = "dummy" THEN JStr("true") ELSE JStr("172.17.0.1")])
\* documents an expected.json may hold
ExpectedDocs == {DocDummy, DocExtra}
\* documents the engine may emit
EventDocs == {DocDummy, DocExtra}

\* CompareMode::Inclusive: keys and elements of actual that expected lacks
\* are let through (mutation of StrictMatch)
RECURSIVE InclusiveMatch(_, _)
InclusiveMatch(actual, expected) ==
    IF actual.t \in {"object", "array"}
      THEN /\ expected.t = actual.t
           /\ \A k \in DOMAIN expected.v :
                 /\ k \in DOMAIN actual.v
                 /\ InclusiveMatch(actual.v[k], expected.v[k])
      ELSE expected.t = actual.t /\ expected.v = actual.v

\* assert_json_matches_no_panic(actual, expected, Strict): the diff walks
\* both values; under every key or index that either side has, both sides
\* must have a value and the two must match; scalars must be equal Values.
RECURSIVE StrictMatch(_, _)
StrictMatch(actual, expected) ==
    IF actual.t \in {"object", "array"}
      THEN /\ expected.t = actual.t
           /\ \A k \in DOMAIN actual.v \cup DOMAIN expected.v :
                 /\ k \in DOMAIN actual.v
                 /\ k \in DOMAIN expected.v
                 /\ StrictMatch(actual.v[k], expected.v[k])
      ELSE expected.t = actual.t /\ expected.v = actual.v

(* ------------------------------- state --------------------------------- *)
VARIABLES
    rules_empty,   \* collect_rules() returned an empty list
    test_cases,    \* Vec<TestCase>: sequence of [input, expected]
    verbose,       \* run_tests: argument
    runner,        \* default_runner: "start", "racing", "ok", "err", "panic"
    server,        \* spawned run_server task: "none", "spawned", "serving", "dead"
    pc,            \* run_tests: position of the driver
    i,             \* run_tests: index of the current test case (1-based)
    test_result,   \* run_tests: local test_result
    ret,           \* run_tests: returned value (NoRet until it returns)
    output_data,   \* run_single_test: event id received for the current case
    created,       \* Docker: number of create_container calls that succeeded
    started,       \* Docker: number of start_container calls that succeeded
    stops,         \* Docker: number of stop_container calls issued
    retries,       \* healthy(): argument
    delay,         \* healthy(): argument, seconds
    curr_retries,  \* healthy(): local counter
    health_result, \* healthy(): "pending" or its outcome
    hlog,          \* healthy(): history of polls (reported status) and sleeps
    slept,         \* healthy(): seconds slept so far
    posts,         \* history: cases whose fixture the driver has POSTed
    inbox,         \* engine: cases whose fixture reached the engine
    response_status, \* status class of the response to the POST the driver
                   \* awaits the event of ("none": no such response)
    accepted,      \* collector: events of the requests accepted so far
    handlers,      \* collector: ids of requests whose root() awaits send()
    replied,       \* collector: ids of requests answered 204
    handler_panics,\* collector: ids of requests whose root() panicked
    queue,         \* mpsc channel: ids of the buffered events
    consumed,      \* history: [case, ev] for every recv() that returned Some
    dropped,       \* events still buffered when the Receiver was dropped
    rules,         \* build_image_archive: argument, paths of the rule files
    scripts,       \* build_image_archive: argument, paths of the ruby scripts
    patterns,      \* build_image_archive: argument, paths of the grok patterns
    files,         \* file system: contents of the rule/script/pattern files
    input_template,  \* PipelineAssets: template input.conf
    output_template, \* PipelineAssets: template output.conf
    pipeline,      \* file system: contents of cache_dir/logstash.conf
    ark,           \* tar::Builder: entries appended so far
    ark_prev,      \* archive written by the previous build
    builds,        \* builds that returned Ok so far
    apc,           \* build_image_archive: position
    todo,          \* config template loop: names not yet visited
    rule_idx,      \* rule loop: index of the next rule (1-based)
    builder_stream,\* build_container_image: the events the daemon streams
    bpos,          \* build_container_image: next event (0: not called)
    image_id,      \* build_container_image: local image_id ("none": None)
    build_ret      \* build_container_image: returned value

vars == <<rules_empty, test_cases, verbose, runner, server, pc, i, test_result, ret,
          output_data, created, started, stops, retries, delay, curr_retries,
          health_result, hlog, slept, posts, inbox, response_status, accepted, handlers,
          replied, handler_panics, queue, consumed, dropped, rules, scripts,
          patterns, files, input_template, output_template, pipeline, ark,
          ark_prev, builds, apc, todo, rule_idx, builder_stream, bpos,
          image_id, build_ret>>

cfgVars == <<rules_empty, test_cases, verbose>>
driverVars == <<pc, i, test_result, ret, output_data>>
dockerVars == <<created, started, stops>>
healthVars == <<retries, delay, curr_retries, health_result, hlog, slept>>
engineVars == <<posts, inbox, response_status>>
collectorVars == <<accepted, handlers, replied, handler_panics>>
chanVars == <<queue, consumed, dropped>>
archiveInputs == <<rules, scripts, patterns, files, input_template,
                   output_template>>
archiveVars == <<archiveInputs, pipeline, ark, ark_prev, builds, apc, todo,
                 rule_idx>>
buildVars == <<builder_stream, bpos, image_id, build_ret>>

(* ------------------------------ results -------------------------------- *)
\* anyhow::Result<()> of run_tests: kind names the failing operation, case
\* the test case the context "Running test case {i}" names (0: none).
Res(kind, case) == [kind |-> kind, case |-> case]
Ok == Res("ok", 0)
NoRet == Res("none", 0)

N == Len(test_cases)

\* The Receiver lives in the run_tests future: it is dropped when run_tests
\* returns or when the future is dropped by select!.
RxAlive == pc \notin {"idle", "returned", "cancelled"}

\* Sender clones: one in the router state of the server task, one in every
\* running root() handler.
SendersAlive == server \in {"spawned", "serving"} \/ handlers # {}

TestCaseSeqs == UNION {[1..n -> [input : {DocEmpty}, expected : ExpectedDocs]] : n \in 0..MaxCases}

InitCommon ==
    /\ verbose = FALSE
    /\ i = 0
    /\ test_result = Ok
    /\ ret = NoRet
    /\ output_data = 0
    /\ curr_retries = 0
    /\ health_result = "pending"
    /\ hlog = <<>>
    /\ slept = 0
    /\ posts = <<>>
    /\ inbox = <<>>
    /\ response_status = "none"
    /\ accepted = <<>>
    /\ handlers = {}
    /\ replied = {}
    /\ handler_panics = {}
    /\ queue = <<>>
    /\ consumed = <<>>
    /\ dropped = 0
    /\ stops = 0

\* anyhow::Result<Image> of build_container_image
BuildRes(kind, id) == [kind |-> kind, id |-> id]
NoBuild == BuildRes("none", "none")

\* build_container_image is not under way.
BuildIdle ==
    /\ builder_stream = <<>>
    /\ bpos = 0
    /\ image_id = "none"
    /\ build_ret = NoBuild

\* build_image_archive is not under way: the runs of Spec and SpecHealth
\* take its outcome from BuildImage.
ArchiveIdle ==
    /\ rules = <<>>
    /\ scripts = <<>>
    /\ patterns = <<>>
    /\ files = <<>>
    /\ input_template = <<>>
    /\ output_template = <<>>
    /\ pipeline = <<>>
    /\ ark = <<>>
    /\ ark_prev = <<>>
    /\ builds = 0
    /\ apc = "idle"
    /\ todo = {}
    /\ rule_idx = 0

\* State at the entry of default_runner, after the directories were scanned.
Init ==
    /\ rules_empty \in BOOLEAN
    /\ test_cases \in TestCaseSeqs
    /\ runner = "start"
    /\ server = "none"
    /\ pc = "idle"
    /\ created = 0
    /\ started = 0
    /\ retries = HEALTH_RETRIES
    /\ delay = HEALTH_DELAY
    /\ InitCommon
    /\ ArchiveIdle
    /\ BuildIdle


(* -------------------------- default_runner ----------------------------- *)
\* Launch without the test of the test-case list: a run with rules and no
\* test case launches the two tasks.
LaunchRulesOnly ==
    /\ runner = "start"
    /\ \E okDirs \in BOOLEAN :
          IF ~okDirs \/ rules_empty
            THEN /\ runner' = "err"
                 /\ UNCHANGED <<server, pc>>
            ELSE /\ runner' = "racing"
                 /\ server' = "spawned"
                 /\ pc' = "connect"
    /\ UNCHANGED <<cfgVars, archiveVars, buildVars, i, test_result, ret, output_data, dockerVars,
                   healthVars, engineVars, collectorVars, chanVars>>

\* lib.rs default_runner, up to the launch of the two tasks: a failure to
\* find or create the directories, an empty rule list or an empty test-case
\* list is an error returned before the channel exists; otherwise the
\* channel is created, run_server is spawned and run_tests is polled by
\* select!.
Launch ==
    /\ runner = "start"
    /\ \E okDirs \in BOOLEAN :
          IF ~okDirs \/ rules_empty \/ N = 0
            THEN /\ runner' = "err"
                 /\ UNCHANGED <<server, pc>>
            ELSE /\ runner' = "racing"
                 /\ server' = "spawned"
                 /\ pc' = "connect"
    /\ UNCHANGED <<cfgVars, archiveVars, buildVars, i, test_result, ret, output_data, dockerVars,
                   healthVars, engineVars, collectorVars, chanVars>>

\* ServerWins taken while the server task is still running.
ServerWinsEarly ==
    /\ runner = "racing"
    /\ server \in {"serving", "dead"}
    /\ runner' = "ok"
    /\ pc' = "cancelled"
    /\ dropped' = Len(queue)
    /\ queue' = <<>>
    /\ UNCHANGED <<cfgVars, archiveVars, buildVars, server, i, test_result, ret, output_data,
                   dockerVars, healthVars, engineVars, collectorVars, consumed>>

\* select!: the JoinHandle of the spawned server task is ready.  The branch
\* body is empty, default_runner returns Ok(()) and the run_tests future is
\* dropped where it stands, and the Receiver with it.
ServerWins ==
    /\ runner = "racing"
    /\ server = "dead"
    /\ runner' = "ok"
    /\ pc' = "cancelled"
    /\ dropped' = Len(queue)
    /\ queue' = <<>>
    /\ UNCHANGED <<cfgVars, archiveVars, buildVars, server, i, test_result, ret, output_data,
                   dockerVars, healthVars, engineVars, collectorVars, consumed>>

(* ---------------------------- run_server ------------------------------- *)
\* server.rs run_server: axum::Server::bind either binds OUTPUT_PORT and
\* serves, or fails; the failure panics the spawned task (bind panics, and
\* an Err of run_server is unwrapped in lib.rs), which drops its Sender.
ServerBind ==
    /\ server = "spawned"
    /\ \E okBind \in BOOLEAN : server' = IF okBind THEN "serving" ELSE "dead"
    /\ UNCHANGED <<cfgVars, archiveVars, buildVars, runner, driverVars, dockerVars, healthVars,
                   engineVars, collectorVars, chanVars>>

\* The engine in the started container posts one event to the collector:
\* the answer to a fixture it received (src) or an event of its own
\* (src = 0).  axum accepts the request and starts root() with a clone of
\* the Sender.  A container that was asked to stop may still emit until it
\* is down, and one whose stop failed keeps running.  cap bounds the
\* requests of one run.
Emit(cap) ==
    /\ started > 0
    /\ server = "serving"
    /\ Len(accepted) < cap
    /\ \E src \in {0} \cup {inbox[k] : k \in 1..Len(inbox)}, val \in EventDocs :
          accepted' = Append(accepted, [src |-> src, val |-> val])
    /\ handlers' = handlers \cup {Len(accepted) + 1}
    /\ UNCHANGED <<cfgVars, archiveVars, buildVars, runner, server, driverVars, dockerVars, healthVars,
                   engineVars, replied, handler_panics, chanVars>>

EngineEmit == Emit(MaxEvents)

\* SendOk with the payload enqueued twice.
SendTwice(h) ==
    queue' = queue \o <<h, h>>

\* SendOk with the payload thrown away.
SendNothing(h) ==
    queue' = queue

\* mpsc Sender::send of one payload on a channel that has room.
SendOk(h) ==
    queue' = Append(queue, h)

\* HandlerSend on a channel without a capacity: the send never suspends.
HandlerSendUnbounded ==
    /\ \E h \in handlers :
          /\ handlers' = handlers \ {h}
          /\ IF ~RxAlive
               THEN /\ handler_panics' = handler_panics \cup {h}
                    /\ UNCHANGED <<queue, replied>>
               ELSE /\ SendOk(h)
                    /\ replied' = replied \cup {h}
                    /\ UNCHANGED handler_panics
    /\ UNCHANGED <<cfgVars, archiveVars, buildVars, runner, server, driverVars, dockerVars, healthVars,
                   engineVars, accepted, consumed, dropped>>

\* HandlerSend on a runtime that the sleep of healthy() blocks: no handler
\* runs while the driver sleeps.
HandlerSendBlockedBySleep ==
    /\ pc # "health_sleep"
    /\ \E h \in handlers :
          /\ handlers' = handlers \ {h}
          /\ IF ~RxAlive
               THEN /\ handler_panics' = handler_panics \cup {h}
                    /\ UNCHANGED <<queue, replied>>
               ELSE /\ Len(queue) < CHANNEL_CAPACITY
                    /\ SendOk(h)
                    /\ replied' = replied \cup {h}
                    /\ UNCHANGED handler_panics
    /\ UNCHANGED <<cfgVars, archiveVars, buildVars, runner, server, driverVars, dockerVars, healthVars,
                   engineVars, accepted, consumed, dropped>>

\* server.rs root(): send(payload).await, unwrap, then 204 No Content.  The
\* send suspends while the channel is full and fails once the Receiver is
\* gone; the unwrap then panics this handler.
HandlerSend ==
    /\ \E h \in handlers :
          /\ handlers' = handlers \ {h}
          /\ IF ~RxAlive
               THEN /\ handler_panics' = handler_panics \cup {h}
                    /\ UNCHANGED <<queue, replied>>
               ELSE /\ Len(queue) < CHANNEL_CAPACITY
                    /\ SendOk(h)
                    /\ replied' = replied \cup {h}
                    /\ UNCHANGED handler_panics
    /\ UNCHANGED <<cfgVars, archiveVars, buildVars, runner, server, driverVars, dockerVars, healthVars,
                   engineVars, accepted, consumed, dropped>>

(* ----------------------------- run_tests ------------------------------- *)
\* Return in a default_runner that joins the server task before it ends:
\* the run is over only once the server task is dead.
ReturnThenJoin(r) ==
    /\ ret' = r
    /\ pc' = "returned"
    /\ dropped' = Len(queue)
    /\ queue' = <<>>
    /\ runner' = IF server # "dead" THEN runner
                 ELSE IF r = Ok THEN "ok" ELSE "panic"

\* run_tests returns r: the Receiver it owns is dropped, and the select!
\* branch of default_runner runs e.expect(..): Ok ends the run, Err panics.
Return(r) ==
    /\ ret' = r
    /\ pc' = "returned"
    /\ dropped' = Len(queue)
    /\ queue' = <<>>
    /\ runner' = IF r = Ok THEN "ok" ELSE "panic"

\* TestContext::new: Docker::connect_with_local_defaults()?
DockerConnect ==
    /\ pc = "connect"
    /\ \E okCall \in BOOLEAN :
          IF okCall
            THEN /\ pc' = "build"
                 /\ UNCHANGED <<runner, ret, queue, dropped>>
            ELSE Return(Res("connect", 0))
    /\ UNCHANGED <<cfgVars, archiveVars, buildVars, server, i, test_result, output_data, dockerVars,
                   healthVars, engineVars, collectorVars, consumed>>

\* TestContext::new: build_container_image(..).await?
BuildImage ==
    /\ pc = "build"
    /\ \E okCall \in BOOLEAN :
          IF okCall
            THEN /\ pc' = "create"
                 /\ UNCHANGED <<runner, ret, queue, dropped>>
            ELSE Return(Res("build", 0))
    /\ UNCHANGED <<cfgVars, archiveVars, buildVars, server, i, test_result, output_data, dockerVars,
                   healthVars, engineVars, collectorVars, consumed>>

\* CreateContainer that also starts the container it made.
CreateContainerStarted ==
    /\ pc = "create"
    /\ \E okCall \in BOOLEAN :
          IF okCall
            THEN /\ created' = created + 1
                 /\ started' = started + 1
                 /\ pc' = "start"
                 /\ UNCHANGED <<runner, ret, queue, dropped>>
            ELSE /\ Return(Res("create", 0))
                 /\ UNCHANGED <<created, started>>
    /\ UNCHANGED <<cfgVars, archiveVars, buildVars, server, i, test_result, output_data, stops,
                   healthVars, engineVars, collectorVars, consumed>>

\* TestContext::new: create_container(..).await?
CreateContainer ==
    /\ pc = "create"
    /\ \E okCall \in BOOLEAN :
          IF okCall
            THEN /\ created' = created + 1
                 /\ pc' = "start"
                 /\ UNCHANGED <<runner, ret, queue, dropped>>
            ELSE /\ Return(Res("create", 0))
                 /\ UNCHANGED created
    /\ UNCHANGED <<cfgVars, archiveVars, buildVars, server, i, test_result, output_data, started, stops,
                   healthVars, engineVars, collectorVars, consumed>>

\* StartContainer without the wait for the health check: the test cases
\* begin as soon as the container is started (the entry of the loop of
\* run_tests is written out).
StartContainerNoGate ==
    /\ pc = "start"
    /\ \E okCall \in BOOLEAN :
          IF okCall
            THEN /\ started' = started + 1
                 /\ pc' = IF N >= 1 THEN "read_input" ELSE "close"
                 /\ i' = IF N >= 1 THEN 1 ELSE i
                 /\ UNCHANGED <<runner, ret, queue, dropped>>
            ELSE /\ Return(Res("start", 0))
                 /\ UNCHANGED <<started, i>>
    /\ UNCHANGED <<cfgVars, archiveVars, buildVars, server, test_result, output_data, created, stops,
                   healthVars, engineVars, collectorVars, consumed>>

\* TestContext::new: docker.start_container(..).await?  An error returns
\* from new() and from run_tests at once.
StartContainer ==
    /\ pc = "start"
    /\ \E okCall \in BOOLEAN :
          IF okCall
            THEN /\ started' = started + 1
                 /\ pc' = "health"
                 /\ UNCHANGED <<runner, ret, queue, dropped>>
            ELSE /\ Return(Res("start", 0))
                 /\ UNCHANGED started
    /\ UNCHANGED <<cfgVars, archiveVars, buildVars, server, i, test_result, output_data, created, stops,
                   healthVars, engineVars, collectorVars, consumed>>


(* ------------------------------ healthy -------------------------------- *)
\* what an inspect_container call may report as state.health.status:
\* a HealthStatusEnum value, or no health field at all ("absent")
HealthReports == {"starting", "healthy", "unhealthy", "none", "absent"}

\* HealthMatch with `>` for `>=` in the test of the retry bound.
HealthMatchOffByOne(status, cr, r) ==
    CASE status = "healthy" -> "ok"
      [] status = "starting" -> IF cr + 1 > r THEN "exhausted" ELSE "sleep"
      [] status = "absent" -> "absent"
      [] OTHER -> "unexpected"

\* HealthMatch with a missing health field counted as "starting".
HealthMatchAbsentRetries(status, cr, r) ==
    CASE status = "healthy" -> "ok"
      [] status \in {"starting", "absent"} -> IF cr + 1 >= r THEN "exhausted" ELSE "sleep"
      [] OTHER -> "unexpected"

\* HealthMatch that takes the container for ready once the retries are
\* used up.
HealthMatchAssumeReady(status, cr, r) ==
    CASE status = "healthy" -> "ok"
      [] status = "starting" -> IF cr + 1 >= r THEN "ok" ELSE "sleep"
      [] status = "absent" -> "absent"
      [] OTHER -> "unexpected"

\* HealthMatch that sleeps and polls again on "starting" whatever the count.
HealthMatchNoBound(status, cr, r) ==
    CASE status = "healthy" -> "ok"
      [] status = "starting" -> "sleep"
      [] status = "absent" -> "absent"
      [] OTHER -> "unexpected"

\* docker.rs healthy(): the match on the reported health, with cr the value
\* of curr_retries before the poll and r the retries argument.
HealthMatch(status, cr, r) ==
    CASE status = "healthy" -> "ok"
      [] status = "starting" -> IF cr + 1 >= r THEN "exhausted" ELSE "sleep"
      [] status = "absent" -> "absent"
      [] OTHER -> "unexpected"

\* EnterCase that leaves the loop after the first case.
EnterCaseBreak(k) ==
    IF k <= N /\ k <= 1
      THEN /\ i' = k
           /\ pc' = "read_input"
      ELSE /\ pc' = "close"
           /\ UNCHANGED i

\* run_tests: the for loop over test_cases.iter().enumerate() moves to case
\* k, or leaves the loop for context.close() when there is none.
EnterCase(k) ==
    IF k <= N
      THEN /\ i' = k
           /\ pc' = "read_input"
      ELSE /\ pc' = "close"
           /\ UNCHANGED i

\* One iteration of the 'retry loop of healthy(), up to its sleep or its
\* return: inspect_container (an error returns at once), then the match.
\* TestContext::new propagates an error with `?`; on success run_tests
\* enters the loop over the test cases.
HealthPoll ==
    /\ pc = "health"
    /\ \E st \in HealthReports \cup {"inspect_error"} :
          LET out == IF st = "inspect_error" THEN "inspect_error"
                     ELSE HealthMatch(st, curr_retries, retries)
          IN  /\ hlog' = Append(hlog, st)
              /\ curr_retries' = IF st = "starting" THEN curr_retries + 1 ELSE curr_retries
              /\ CASE out = "sleep" ->
                        /\ pc' = "health_sleep"
                        /\ UNCHANGED <<health_result, i, runner, ret, queue, dropped>>
                   [] out = "ok" ->
                        /\ health_result' = "ok"
                        /\ EnterCase(1)
                        /\ UNCHANGED <<runner, ret, queue, dropped>>
                   [] OTHER ->
                        /\ health_result' = out
                        /\ Return(Res("health", 0))
                        /\ UNCHANGED i
    /\ UNCHANGED <<cfgVars, archiveVars, buildVars, server, test_result, output_data, dockerVars, retries,
                   delay, slept, engineVars, collectorVars, consumed>>

\* healthy(): sleep(delay).await, then the next iteration.
HealthSleep ==
    /\ pc = "health_sleep"
    /\ hlog' = Append(hlog, "sleep")
    /\ slept' = slept + delay
    /\ pc' = "health"
    /\ UNCHANGED <<cfgVars, archiveVars, buildVars, runner, server, i, test_result, ret, output_data,
                   dockerVars, retries, delay, curr_retries, health_result,
                   engineVars, collectorVars, chanVars>>

(* -------------------------- run_single_test ---------------------------- *)
\* run_tests: run_single_test returned Err(e): test_result = Err(e); break.
FailCase(kind) ==
    /\ test_result' = Res(kind, i)
    /\ pc' = "close"

\* run_single_test: open and deserialize the input file.
ReadInput ==
    /\ pc = "read_input"
    /\ \E okRead \in BOOLEAN :
          IF okRead
            THEN /\ pc' = "post"
                 /\ UNCHANGED test_result
            ELSE FailCase("input")
    /\ UNCHANGED <<cfgVars, archiveVars, buildVars, runner, server, i, ret, output_data, dockerVars,
                   healthVars, engineVars, collectorVars, chanVars>>

\* outcomes of client.post(..).json(..).send().await: a response with a
\* success status, a response with another status (send() still returns
\* Ok), a transport error after the engine got the request, a transport
\* error before it did
PostOutcomes == {"2xx", "non2xx", "lost_reply", "unsent"}

\* PostFixture that does not await the event of the case it submitted and
\* goes on to the next case.
PostFixtureNoWait ==
    /\ pc = "post"
    /\ posts' = Append(posts, i)
    /\ \E out \in PostOutcomes :
          /\ inbox' = IF out = "unsent" THEN inbox ELSE Append(inbox, i)
          /\ response_status' = IF out \in {"2xx", "non2xx"} THEN out ELSE "none"
          /\ IF out \in {"2xx", "non2xx"}
               THEN /\ IF i + 1 <= N
                         THEN i' = i + 1 /\ pc' = "read_input"
                         ELSE i' = i /\ pc' = "close"
                    /\ UNCHANGED test_result
               ELSE /\ FailCase("send")
                    /\ UNCHANGED i
    /\ UNCHANGED <<cfgVars, archiveVars, buildVars, runner, server, ret, output_data, dockerVars,
                   healthVars, collectorVars, chanVars>>

\* PostFixture that takes the oldest buffered event off the channel before
\* it returns the transport error.
PostFixtureDrainOnError ==
    /\ pc = "post"
    /\ posts' = Append(posts, i)
    /\ \E out \in PostOutcomes :
          /\ inbox' = IF out = "unsent" THEN inbox ELSE Append(inbox, i)
          /\ response_status' = IF out \in {"2xx", "non2xx"} THEN out ELSE "none"
          /\ IF out \in {"2xx", "non2xx"}
               THEN /\ pc' = "recv"
                    /\ UNCHANGED <<test_result, queue>>
               ELSE /\ FailCase("send")
                    /\ queue' = IF queue = <<>> THEN queue ELSE Tail(queue)
    /\ UNCHANGED <<cfgVars, archiveVars, buildVars, runner, server, i, ret, output_data, dockerVars,
                   healthVars, collectorVars, consumed, dropped>>

\* run_single_test: POST the input to the engine; Ok(response) goes on to
\* the recv(), Err is returned with `?`.
PostFixture ==
    /\ pc = "post"
    /\ posts' = Append(posts, i)
    /\ \E out \in PostOutcomes :
          /\ inbox' = IF out = "unsent" THEN inbox ELSE Append(inbox, i)
          /\ response_status' = IF out \in {"2xx", "non2xx"} THEN out ELSE "none"
          /\ IF out \in {"2xx", "non2xx"}
               THEN /\ pc' = "recv"
                    /\ UNCHANGED test_result
               ELSE FailCase("send")
    /\ UNCHANGED <<cfgVars, archiveVars, buildVars, runner, server, i, ret, output_data, dockerVars,
                   healthVars, collectorVars, chanVars>>

\* mpsc Receiver::recv returning Some: the oldest buffered value leaves
\* the channel.
RecvSome ==
    /\ output_data' = Head(queue)
    /\ queue' = Tail(queue)

\* Recv that reports a closed, empty channel as a failed comparison.
RecvNoneAsMismatch ==
    /\ pc = "recv"
    /\ IF queue # <<>>
         THEN /\ RecvSome
              /\ consumed' = Append(consumed, [case |-> i, ev |-> Head(queue)])
              /\ pc' = "compare"
              /\ UNCHANGED test_result
         ELSE /\ ~SendersAlive
              /\ FailCase("mismatch")
              /\ UNCHANGED <<output_data, queue, consumed>>
    /\ response_status' = "none"
    /\ UNCHANGED <<cfgVars, archiveVars, buildVars, runner, server, i, ret, dockerVars, healthVars,
                   posts, inbox, collectorVars, dropped>>

\* Recv under a timeout: an empty queue ends the wait with the "no output"
\* failure also while a Sender is alive.
RecvWithTimeout ==
    /\ pc = "recv"
    /\ IF queue # <<>>
         THEN /\ RecvSome
              /\ consumed' = Append(consumed, [case |-> i, ev |-> Head(queue)])
              /\ pc' = "compare"
              /\ UNCHANGED test_result
         ELSE /\ FailCase("no_output")
              /\ UNCHANGED <<output_data, queue, consumed>>
    /\ response_status' = "none"
    /\ UNCHANGED <<cfgVars, archiveVars, buildVars, runner, server, i, ret, dockerVars, healthVars,
                   posts, inbox, collectorVars, dropped>>

\* run_single_test: receiver.recv().await.  Some(event) when the channel
\* holds one; None when it is empty and every Sender is gone, which is the
\* error "Logstash did not send output event data"; pending otherwise.
Recv ==
    /\ pc = "recv"
    /\ IF queue # <<>>
         THEN /\ RecvSome
              /\ consumed' = Append(consumed, [case |-> i, ev |-> Head(queue)])
              /\ pc' = "compare"
              /\ UNCHANGED test_result
         ELSE /\ ~SendersAlive
              /\ FailCase("no_output")
              /\ UNCHANGED <<output_data, queue, consumed>>
    /\ response_status' = "none"
    /\ UNCHANGED <<cfgVars, archiveVars, buildVars, runner, server, i, ret, dockerVars, healthVars,
                   posts, inbox, collectorVars, dropped>>

\* run_single_test: read the expected file, then compare the event with it
\* in strict mode; run_tests goes to the next case on Ok.
CompareOutput ==
    /\ pc = "compare"
    /\ \E okRead \in BOOLEAN :
          IF ~okRead
            THEN /\ FailCase("expected")
                 /\ UNCHANGED i
            ELSE IF StrictMatch(accepted[output_data].val, test_cases[i].expected)
                   THEN /\ EnterCase(i + 1)
                        /\ UNCHANGED test_result
                   ELSE /\ FailCase("mismatch")
                        /\ UNCHANGED i
    /\ UNCHANGED <<cfgVars, archiveVars, buildVars, runner, server, ret, output_data, dockerVars,
                   healthVars, engineVars, collectorVars, chanVars>>

\* run_single_test: the error made of the mismatch e that the comparison
\* found: the difference, and with verbose the two payloads as well.
MismatchError(v, e, actual, expected) ==
    IF v THEN [diff |-> e, payloads |-> <<actual, expected>>]
         ELSE [diff |-> e, payloads |-> <<>>]

\* run_tests: `context.close().await?; test_result`: what run_tests returns
\* given the outcome of stop_container and the local test_result.
CloseResult(okStop, tr) ==
    IF okStop THEN tr ELSE Res("stop", 0)

\* Close that returns test_result without asking the container to stop.
CloseWithoutStop ==
    /\ pc = "close"
    /\ stops' = stops
    /\ Return(CloseResult(TRUE, test_result))
    /\ UNCHANGED <<cfgVars, archiveVars, buildVars, server, i, test_result, output_data, created, started,
                   healthVars, engineVars, collectorVars, consumed>>

\* run_tests: context.close(): stop_container is called once, and run_tests
\* returns.
Close ==
    /\ pc = "close"
    /\ stops' = stops + 1
    /\ \E okStop \in BOOLEAN : Return(CloseResult(okStop, test_result))
    /\ UNCHANGED <<cfgVars, archiveVars, buildVars, server, i, test_result, output_data, created, started,
                   healthVars, engineVars, collectorVars, consumed>>

(* --------------------------- specifications ---------------------------- *)
Next ==
    \/ Launch
    \/ ServerWins
    \/ ServerBind
    \/ EngineEmit
    \/ HandlerSend
    \/ DockerConnect
    \/ BuildImage
    \/ CreateContainer
    \/ StartContainer
    \/ HealthPoll
    \/ HealthSleep
    \/ ReadInput
    \/ PostFixture
    \/ Recv
    \/ CompareOutput
    \/ Close

Spec == Init /\ [][Next]_vars

\* healthy() on its own: called on a started container with any retries
\* and delay arguments.
InitHealth ==
    /\ rules_empty = FALSE
    /\ test_cases = <<[input |-> DocEmpty, expected |-> DocDummy]>>
    /\ runner = "racing"
    /\ server = "serving"
    /\ pc = "health"
    /\ created = 1
    /\ started = 1
    /\ retries \in 0..MaxRetries
    /\ delay \in 1..MaxDelay
    /\ InitCommon
    /\ ArchiveIdle
    /\ BuildIdle

NextHealth ==
    \/ HealthPoll
    \/ HealthSleep

SpecHealth == InitHealth /\ [][NextHealth]_vars


(* ------------------------- build_image_archive ------------------------- *)
\* A path is the sequence of its components; file contents and rendered
\* text are sequences of chunks (strings).
PIPELINE_NAME == <<"logstash.conf">>
SCRIPTS_DIR == <<"scripts">>
PATTERNS_DIR == <<"patterns">>

\* A template is a sequence of tokens: literal text or a {{parameter}}.
Lit(s) == [param |-> FALSE, s |-> s]
Param(s) == [param |-> TRUE, s |-> s]

\* docker.rs: the Handlebars context of build_image_archive
ContextParams == {"input_port", "output_port", "api_port", "pipeline_name",
                  "scripts_dir", "patterns_dir"}
ctx(p) ==
    CASE p = "input_port" -> "5066"
      [] p = "output_port" -> "5067"
      [] p = "api_port" -> "9600"
      [] p = "pipeline_name" -> "logstash.conf"
      [] p = "scripts_dir" -> "scripts"
      [] p = "patterns_dir" -> "patterns"

\* strict mode: a parameter the context does not define is a render error
Renders(t) == \A k \in 1..Len(t) : t[k].param => t[k].s \in ContextParams

\* render_with_context_to_write: literals are copied, parameters replaced
\* by their value in the context
Render(t) == [k \in 1..Len(t) |-> IF t[k].param THEN ctx(t[k].s) ELSE t[k].s]

\* what a failed render has written: the text before the first parameter
\* that does not resolve, or any shorter prefix of it
FirstBad(t) == CHOOSE k \in 1..Len(t) :
                  /\ t[k].param /\ t[k].s \notin ContextParams
                  /\ \A j \in 1..(k - 1) : ~(t[j].param /\ t[j].s \notin ContextParams)
PartialRenders(t) == {Render(SubSeq(t, 1, n)) : n \in 0..(FirstBad(t) - 1)}

\* ConfigAssets: names of the fixed configuration templates, and their text
ConfigNames == {<<"Dockerfile">>, <<"logstash.yml">>}
ConfigTemplate(name) == <<Lit(name[1]), Param("pipeline_name")>>

\* PipelineAssets: texts input.conf and output.conf may have
InputTemplates == {<<Lit("input{"), Param("input_port"), Lit("}")>>,
                   <<Lit("input{"), Param("port"), Lit("}")>>}
OutputTemplates == {<<Lit("output{"), Param("output_port"), Lit("}")>>,
                    <<Lit("output{"), Param("url"), Lit("}")>>}

\* the files the caller may name
RulePaths == {<<"rules", "10.conf">>, <<"rules", "20.conf">>}
RuleBytes == {<<>>, <<"filter{a}">>, <<"filter{", "{{input_port}}", "}">>}
RuleLists == UNION {[1..n -> RulePaths] : n \in 0..MaxRules}
ScriptLists == {<<>>, <<<<"lib", "a.rb">>>>,
                <<<<"lib", "a.rb">>, <<"lib", "b.rb">>>>, <<<<"..">>>>}
PatternLists == {<<>>, <<<<"grok", "p.grok">>>>}
AuxPaths == {<<"lib", "a.rb">>, <<"lib", "b.rb">>, <<"grok", "p.grok">>}
FileSystems == {[p \in RulePaths \cup AuxPaths |->
                    IF p \in RulePaths THEN rb[p] ELSE <<p[2]>>] :
                 rb \in [RulePaths -> RuleBytes]}

\* Path::file_name: the last component, none when the path ends in ".."
HasFileName(p) == Len(p) > 0 /\ p[Len(p)] # ".."
FileName(p) == p[Len(p)]

\* tar entry appended under HeaderMode::Deterministic: name, contents and
\* the fixed metadata
Entry(name, data) == [name |-> name, data |-> data, header |-> "deterministic"]

\* AuxEntries that adds the .gitkeep only when there is no file
AuxEntriesPlaceholderIfEmpty(base, list) ==
    IF list = <<>>
      THEN <<Entry(base \o <<".gitkeep">>, <<>>)>>
      ELSE [k \in 1..Len(list) |->
              Entry(base \o <<FileName(list[k])>>, files[list[k]])]

\* entries of the script or pattern loop: one per file, under base, then
\* the empty .gitkeep
AuxEntries(base, list) ==
    [k \in 1..(Len(list) + 1) |->
        IF k <= Len(list)
          THEN Entry(base \o <<FileName(list[k])>>, files[list[k]])
          ELSE Entry(base \o <<".gitkeep">>, <<>>)]

\* docker.rs:44-48: the archive file is created (truncated) and the
\* builder set to deterministic headers; the templates are registered.
CreateArchive ==
    /\ apc = "idle"
    /\ \E ok \in BOOLEAN :
          IF ok THEN /\ apc' = "config"
                     /\ ark' = <<>>
                     /\ todo' = ConfigNames
                ELSE /\ apc' = "err"
                     /\ UNCHANGED <<ark, todo>>
    /\ UNCHANGED <<cfgVars, runner, server, driverVars, dockerVars, healthVars,
                   engineVars, collectorVars, chanVars, buildVars, archiveInputs,
                   pipeline, ark_prev, builds, rule_idx>>

\* docker.rs:69-84, one iteration of the loop over get_templates().keys():
\* the map is a HashMap, so the next name is any name not yet visited.
RenderConfig ==
    /\ apc = "config"
    /\ \E name \in todo :
          IF Renders(ConfigTemplate(name))
            THEN /\ ark' = Append(ark, Entry(name, Render(ConfigTemplate(name))))
                 /\ todo' = todo \ {name}
                 /\ apc' = apc
            ELSE /\ apc' = "err"
                 /\ UNCHANGED <<ark, todo>>
    /\ UNCHANGED <<cfgVars, runner, server, driverVars, dockerVars, healthVars,
                   engineVars, collectorVars, chanVars, buildVars, archiveInputs,
                   pipeline, ark_prev, builds, rule_idx>>

\* File::create keeps what the file held (mutation of CreatePipeline)
CreatePipelineNoTruncate ==
    /\ apc = "config"
    /\ todo = {}
    /\ IF Renders(input_template)
         THEN /\ pipeline' = pipeline \o Render(input_template)
              /\ apc' = "rules"
              /\ rule_idx' = 1
         ELSE /\ \E part \in PartialRenders(input_template) : pipeline' = part
              /\ apc' = "err"
              /\ UNCHANGED rule_idx
    /\ UNCHANGED <<cfgVars, runner, server, driverVars, dockerVars, healthVars,
                   engineVars, collectorVars, chanVars, buildVars, archiveInputs,
                   ark, ark_prev, builds, todo>>

\* docker.rs:87-97: File::create truncates cache_dir/logstash.conf and
\* input.conf is rendered into it.
CreatePipeline ==
    /\ apc = "config"
    /\ todo = {}
    /\ IF Renders(input_template)
         THEN /\ pipeline' = Render(input_template)
              /\ apc' = "rules"
              /\ rule_idx' = 1
         ELSE /\ \E part \in PartialRenders(input_template) : pipeline' = part
              /\ apc' = "err"
              /\ UNCHANGED rule_idx
    /\ UNCHANGED <<cfgVars, runner, server, driverVars, dockerVars, healthVars,
                   engineVars, collectorVars, chanVars, buildVars, archiveInputs,
                   ark, ark_prev, builds, todo>>

\* docker.rs:98-105, one iteration of `for rule in rules`: the rule file
\* is opened and std::io::copy appends all its bytes to the pipeline file.
CopyRule ==
    /\ apc = "rules"
    /\ rule_idx <= Len(rules)
    /\ \E opened \in BOOLEAN :
          IF opened
            THEN /\ pipeline' = pipeline \o files[rules[rule_idx]]
                 /\ rule_idx' = rule_idx + 1
                 /\ apc' = apc
            ELSE /\ apc' = "err"
                 /\ UNCHANGED <<pipeline, rule_idx>>
    /\ UNCHANGED <<cfgVars, runner, server, driverVars, dockerVars, healthVars,
                   engineVars, collectorVars, chanVars, buildVars, archiveInputs,
                   ark, ark_prev, builds, todo>>

\* docker.rs:106-107: after the last rule output.conf is rendered into the
\* pipeline file and the file is closed.
RenderOutput ==
    /\ apc = "rules"
    /\ rule_idx > Len(rules)
    /\ IF Renders(output_template)
         THEN /\ pipeline' = pipeline \o Render(output_template)
              /\ apc' = "append_pipeline"
         ELSE /\ \E part \in PartialRenders(output_template) :
                    pipeline' = pipeline \o part
              /\ apc' = "err"
    /\ UNCHANGED <<cfgVars, runner, server, driverVars, dockerVars, healthVars,
                   engineVars, collectorVars, chanVars, buildVars, archiveInputs,
                   ark, ark_prev, builds, todo, rule_idx>>

\* docker.rs:110-115: the pipeline file is appended to the archive.
AppendPipeline ==
    /\ apc = "append_pipeline"
    /\ ark' = Append(ark, Entry(PIPELINE_NAME, pipeline))
    /\ apc' = "scripts"
    /\ UNCHANGED <<cfgVars, runner, server, driverVars, dockerVars, healthVars,
                   engineVars, collectorVars, chanVars, buildVars, archiveInputs,
                   pipeline, ark_prev, builds, todo, rule_idx>>

\* docker.rs:117-140: every script is appended under scripts/ with its
\* file name, then scripts/.gitkeep; a path without a file name ends the
\* build with the entries before it appended.
AppendScripts ==
    /\ apc = "scripts"
    /\ IF \A k \in 1..Len(scripts) : HasFileName(scripts[k])
         THEN /\ ark' = ark \o AuxEntries(SCRIPTS_DIR, scripts)
              /\ apc' = "patterns"
         ELSE /\ LET bad == CHOOSE k \in 1..Len(scripts) :
                               /\ ~HasFileName(scripts[k])
                               /\ \A j \in 1..(k - 1) : HasFileName(scripts[j])
                 IN ark' = ark \o SubSeq(AuxEntries(SCRIPTS_DIR, SubSeq(scripts, 1, bad - 1)),
                                         1, bad - 1)
              /\ apc' = "err"
    /\ UNCHANGED <<cfgVars, runner, server, driverVars, dockerVars, healthVars,
                   engineVars, collectorVars, chanVars, buildVars, archiveInputs,
                   pipeline, ark_prev, builds, todo, rule_idx>>

\* docker.rs:142-168: the same for the grok patterns under patterns/.
AppendPatterns ==
    /\ apc = "patterns"
    /\ IF \A k \in 1..Len(patterns) : HasFileName(patterns[k])
         THEN /\ ark' = ark \o AuxEntries(PATTERNS_DIR, patterns)
              /\ apc' = "finish"
         ELSE /\ LET bad == CHOOSE k \in 1..Len(patterns) :
                               /\ ~HasFileName(patterns[k])
                               /\ \A j \in 1..(k - 1) : HasFileName(patterns[j])
                 IN ark' = ark \o SubSeq(AuxEntries(PATTERNS_DIR, SubSeq(patterns, 1, bad - 1)),
                                         1, bad - 1)
              /\ apc' = "err"
    /\ UNCHANGED <<cfgVars, runner, server, driverVars, dockerVars, healthVars,
                   engineVars, collectorVars, chanVars, buildVars, archiveInputs,
                   pipeline, ark_prev, builds, todo, rule_idx>>

\* docker.rs:171-173: ark.finish() and Ok(archive_path).
FinishArchive ==
    /\ apc = "finish"
    /\ \E ok \in BOOLEAN :
          IF ok THEN /\ apc' = "done"
                     /\ builds' = builds + 1
                ELSE /\ apc' = "err"
                     /\ UNCHANGED builds
    /\ UNCHANGED <<cfgVars, runner, server, driverVars, dockerVars, healthVars,
                   engineVars, collectorVars, chanVars, buildVars, archiveInputs,
                   pipeline, ark, ark_prev, todo, rule_idx>>

\* runner.rs:37-40: the next run of the program builds the archive again
\* in the same cache directory, from the same inputs.
Rebuild ==
    /\ apc = "done"
    /\ builds < MaxBuilds
    /\ ark_prev' = ark
    /\ apc' = "idle"
    /\ UNCHANGED <<cfgVars, runner, server, driverVars, dockerVars, healthVars,
                   engineVars, collectorVars, chanVars, buildVars, archiveInputs,
                   pipeline, ark, builds, todo, rule_idx>>

\* build_image_archive on its own: called from TestContext::new with any
\* rule, script and pattern lists, on a cache directory that may hold the
\* pipeline file of an earlier build.
InitArchive ==
    /\ rules_empty = FALSE
    /\ test_cases = <<[input |-> DocEmpty, expected |-> DocDummy]>>
    /\ runner = "racing"
    /\ server = "spawned"
    /\ pc = "build"
    /\ created = 0
    /\ started = 0
    /\ retries = HEALTH_RETRIES
    /\ delay = HEALTH_DELAY
    /\ InitCommon
    /\ rules \in RuleLists
    /\ scripts \in ScriptLists
    /\ patterns \in PatternLists
    /\ files \in FileSystems
    /\ input_template \in InputTemplates
    /\ output_template \in OutputTemplates
    /\ pipeline \in {<<>>, <<"stale">>}
    /\ ark = <<>>
    /\ ark_prev = <<>>
    /\ builds = 0
    /\ apc = "idle"
    /\ todo = {}
    /\ rule_idx = 0
    /\ BuildIdle

NextArchive ==
    \/ CreateArchive
    \/ RenderConfig
    \/ CreatePipeline
    \/ CopyRule
    \/ RenderOutput
    \/ AppendPipeline
    \/ AppendScripts
    \/ AppendPatterns
    \/ FinishArchive
    \/ Rebuild

SpecArchive == InitArchive /\ [][NextArchive]_vars


(* ------------------- run_single_test: the comparison ------------------- *)
\* JSON values an event or an expected.json may hold: objects that differ
\* in a key, in the type or the value of a scalar, in the order or the
\* length of an array, in a nested object, and values that are no objects.
Tags(a) == JObj([k \in {"tags"} |-> a])
JsonValues ==
    {DocEmpty, DocDummy, DocExtra,
     JObj([k \in {"dummy"} |-> JBool(TRUE)]),
     JObj([k \in {"dummy"} |-> JStr("false")]),
     JObj([k \in {"dummy"} |-> JNull]),
     JObj([k \in {"host"} |-> JStr("true")]),
     Tags(JArr(<<JStr("a"), JStr("b")>>)),
     Tags(JArr(<<JStr("b"), JStr("a")>>)),
     Tags(JArr(<<JStr("a")>>)),
     Tags(JArr(<<JStr("a"), JNum(1)>>)),
     Tags(JArr(<<JStr("a"), JStr("1")>>)),
     Tags(JArr(<<>>)),
     Tags(DocEmpty),
     Tags(DocDummy),
     Tags(DocExtra),
     JArr(<<>>), JNull, JStr("true"), JBool(TRUE), JNum(1)}

\* run_single_test from recv() on, in a run of one test case whose fixture
\* was posted and answered by the engine with one event, now in the queue.
InitCompare ==
    /\ rules_empty = FALSE
    /\ \E e \in JsonValues : test_cases = <<[input |-> DocEmpty, expected |-> e]>>
    /\ verbose \in BOOLEAN
    /\ runner = "racing"
    /\ server = "serving"
    /\ pc = "recv"
    /\ i = 1
    /\ test_result = Ok
    /\ ret = NoRet
    /\ output_data = 0
    /\ created = 1
    /\ started = 1
    /\ stops = 0
    /\ retries = HEALTH_RETRIES
    /\ delay = HEALTH_DELAY
    /\ curr_retries = 0
    /\ health_result = "ok"
    /\ hlog = <<"healthy">>
    /\ slept = 0
    /\ posts = <<1>>
    /\ inbox = <<1>>
    /\ response_status \in {"2xx", "non2xx"}
    /\ \E a \in JsonValues : accepted = <<[src |-> 1, val |-> a]>>
    /\ handlers = {}
    /\ replied = {1}
    /\ handler_panics = {}
    /\ queue = <<1>>
    /\ consumed = <<>>
    /\ dropped = 0
    /\ ArchiveIdle
    /\ BuildIdle

NextCompare ==
    \/ Recv
    \/ CompareOutput
    \/ Close

SpecCompare == InitCompare /\ [][NextCompare]_vars


(* ------------------------- the queue when full ------------------------- *)
\* The run at its first test case, after the engine has posted, since the
\* container started, CHANNEL_CAPACITY - 1 events of its own: nobody
\* received them yet, all of them are in the queue and answered.
Backlog == CHANNEL_CAPACITY - 1

InitQueue ==
    /\ rules_empty = FALSE
    /\ test_cases \in {tc \in TestCaseSeqs : Len(tc) > 0}
    /\ verbose = FALSE
    /\ runner = "racing"
    /\ server = "serving"
    /\ pc = "read_input"
    /\ i = 1
    /\ test_result = Ok
    /\ ret = NoRet
    /\ output_data = 0
    /\ created = 1
    /\ started = 1
    /\ stops = 0
    /\ retries = HEALTH_RETRIES
    /\ delay = HEALTH_DELAY
    /\ curr_retries = 0
    /\ health_result = "ok"
    /\ hlog = <<"healthy">>
    /\ slept = 0
    /\ posts = <<>>
    /\ inbox = <<>>
    /\ response_status = "none"
    /\ accepted = [k \in 1..Backlog |-> [src |-> 0, val |-> DocDummy]]
    /\ handlers = {}
    /\ replied = 1..Backlog
    /\ handler_panics = {}
    /\ queue = [k \in 1..Backlog |-> k]
    /\ consumed = <<>>
    /\ dropped = 0
    /\ ArchiveIdle
    /\ BuildIdle

\* the engine goes on posting, up to MaxEvents more events
EngineEmitBurst == Emit(Backlog + MaxEvents)

NextQueue ==
    \/ EngineEmitBurst
    \/ HandlerSend
    \/ ReadInput
    \/ PostFixture
    \/ Recv
    \/ CompareOutput
    \/ Close

SpecQueue == InitQueue /\ [][NextQueue]_vars


(* ------------------------ build_container_image ----------------------- *)
\* Items of the build event stream: Ok(BuildInfo) with an aux ImageId that
\* holds an id ("id_a", "id_b") or none ("aux_noid"), Ok(BuildInfo) without
\* aux ("info"), Err(DockerStreamError) and any other Err.
BuildEvents == {"id_a", "id_b", "aux_noid", "info", "stream_error", "other_error"}
BuildStreams == UNION {[1..n -> BuildEvents] : n \in 0..MaxStream}

IsAux(ev) == ev \in {"id_a", "id_b", "aux_noid"}
IsErr(ev) == ev \in {"stream_error", "other_error"}
\* id.map(|id| Image { id }) of an aux event
IdOf(ev) == CASE ev = "id_a" -> "a" [] ev = "id_b" -> "b" [] OTHER -> "none"

\* docker.rs:185-206: the archive is built and read, the image tag made
\* and the build request sent; a failure of the first three returns Err.
BuildBegin ==
    /\ bpos = 0
    /\ build_ret = NoBuild
    /\ \E okArchive \in BOOLEAN :
          IF okArchive
            THEN /\ bpos' = 1
                 /\ image_id' = "none"
                 /\ UNCHANGED build_ret
            ELSE /\ build_ret' = BuildRes("archive_error", "none")
                 /\ UNCHANGED <<bpos, image_id>>
    /\ UNCHANGED <<cfgVars, archiveVars, runner, server, driverVars, dockerVars,
                   healthVars, engineVars, collectorVars, chanVars,
                   builder_stream>>

\* the match of the loop body on one stream item: the new image_id and
\* the value returned, NoBuild when the loop goes on
MatchOneError(ev, id) ==
    CASE IsAux(ev) -> [image_id |-> IdOf(ev), ret |-> NoBuild]
      [] IsErr(ev) -> [image_id |-> id, ret |-> BuildRes("stream_error", "none")]
      [] OTHER -> [image_id |-> id, ret |-> NoBuild]

MatchStopAtId(ev, id) ==
    CASE IsAux(ev) -> [image_id |-> IdOf(ev),
                       ret |-> IF IdOf(ev) # "none"
                                 THEN BuildRes("image", IdOf(ev)) ELSE NoBuild]
      [] ev = "stream_error" ->
            [image_id |-> id, ret |-> BuildRes("stream_error", "none")]
      [] ev = "other_error" ->
            [image_id |-> id, ret |-> BuildRes("unspecified_error", "none")]
      [] OTHER -> [image_id |-> id, ret |-> NoBuild]

\* docker.rs:209-232
Match(ev, id) ==
    CASE IsAux(ev) -> [image_id |-> IdOf(ev), ret |-> NoBuild]
      [] ev = "stream_error" ->
            [image_id |-> id, ret |-> BuildRes("stream_error", "none")]
      [] ev = "other_error" ->
            [image_id |-> id, ret |-> BuildRes("unspecified_error", "none")]
      [] OTHER -> [image_id |-> id, ret |-> NoBuild]

\* docker.rs:208-233, one iteration of `while let Some(bi) = next().await`
BuildStreamNext ==
    /\ bpos > 0
    /\ build_ret = NoBuild
    /\ bpos <= Len(builder_stream)
    /\ LET m == Match(builder_stream[bpos], image_id)
       IN /\ image_id' = m.image_id
          /\ build_ret' = m.ret
    /\ bpos' = bpos + 1
    /\ UNCHANGED <<cfgVars, archiveVars, runner, server, driverVars, dockerVars,
                   healthVars, engineVars, collectorVars, chanVars,
                   builder_stream>>

\* docker.rs:235: the stream has ended, image_id.ok_or(..)
BuildStreamEnd ==
    /\ bpos > Len(builder_stream)
    /\ build_ret = NoBuild
    /\ build_ret' = IF image_id = "none" THEN BuildRes("no_image_id", "none")
                    ELSE BuildRes("image", image_id)
    /\ UNCHANGED <<cfgVars, archiveVars, runner, server, driverVars, dockerVars,
                   healthVars, engineVars, collectorVars, chanVars,
                   builder_stream, bpos, image_id>>

\* build_container_image on its own: called from TestContext::new, with
\* any stream of build events from the daemon.
InitBuild ==
    /\ rules_empty = FALSE
    /\ test_cases = <<[input |-> DocEmpty, expected |-> DocDummy]>>
    /\ runner = "racing"
    /\ server = "spawned"
    /\ pc = "build"
    /\ created = 0
    /\ started = 0
    /\ retries = HEALTH_RETRIES
    /\ delay = HEALTH_DELAY
    /\ InitCommon
    /\ ArchiveIdle
    /\ builder_stream \in BuildStreams
    /\ bpos = 0
    /\ image_id = "none"
    /\ build_ret = NoBuild

NextBuild ==
    \/ BuildBegin
    \/ BuildStreamNext
    \/ BuildStreamEnd

SpecBuild == InitBuild /\ [][NextBuild]_vars


(* ------------------- a run whose environment answers ------------------- *)
\* State of default_runner once select! has spawned run_server and polls
\* run_tests: the lists were not empty and the channel exists.
InitLive ==
    /\ rules_empty = FALSE
    /\ test_cases \in {tc \in TestCaseSeqs : Len(tc) > 0}
    /\ runner = "racing"
    /\ server = "spawned"
    /\ pc = "connect"
    /\ created = 0
    /\ started = 0
    /\ retries = HEALTH_RETRIES
    /\ delay = HEALTH_DELAY
    /\ InitCommon
    /\ ArchiveIdle
    /\ BuildIdle

\* fixtures the engine received and has not answered yet
Unanswered ==
    {k \in 1..Len(inbox) : inbox[k] \notin {accepted[e].src : e \in 1..Len(accepted)}}

\* The engine posts the event of a fixture it has not answered yet.
EngineAnswer ==
    /\ Unanswered # {}
    /\ Emit(Len(accepted) + 1)
    /\ accepted'[Len(accepted')].src \in {inbox[k] : k \in Unanswered}

\* A step in which the environment does what the run relies on: the
\* listener binds, the container-runtime calls up to the health check
\* succeed (the container is healthy within the retry bound), and the POST
\* of a fixture is answered.
Answers ==
    /\ server' # "dead"
    /\ ret'.kind \notin {"connect", "build", "create", "start", "health"}
    /\ test_result'.kind # "send"

NextLive ==
    \/ ServerBind /\ Answers
    \/ EngineAnswer /\ Answers
    \/ HandlerSend /\ Answers
    \/ DockerConnect /\ Answers
    \/ BuildImage /\ Answers
    \/ CreateContainer /\ Answers
    \/ StartContainer /\ Answers
    \/ HealthPoll /\ Answers
    \/ HealthSleep /\ Answers
    \/ ReadInput /\ Answers
    \/ PostFixture /\ Answers
    \/ Recv /\ Answers
    \/ CompareOutput /\ Answers
    \/ Close /\ Answers

\* Every call the driver awaits returns, the tokio runtime keeps polling
\* the server task and its handlers, and the engine answers every fixture.
FairLive ==
    /\ WF_vars(ServerBind /\ Answers)
    /\ WF_vars(EngineAnswer /\ Answers)
    /\ WF_vars(HandlerSend /\ Answers)
    /\ WF_vars(DockerConnect /\ Answers)
    /\ WF_vars(BuildImage /\ Answers)
    /\ WF_vars(CreateContainer /\ Answers)
    /\ WF_vars(StartContainer /\ Answers)
    /\ WF_vars(HealthPoll /\ Answers)
    /\ WF_vars(HealthSleep /\ Answers)
    /\ WF_vars(ReadInput /\ Answers)
    /\ WF_vars(PostFixture /\ Answers)
    /\ WF_vars(Recv /\ Answers)
    /\ WF_vars(CompareOutput /\ Answers)
    /\ WF_vars(Close /\ Answers)

SpecLive == InitLive /\ [][NextLive]_vars /\ FairLive


(* ------------------------------ claims --------------------------------- *)
\* kinds of Err that run_single_test can return for a test case
CaseFailures == {"input", "send", "no_output", "expected", "mismatch"}

\* C1: whenever run_tests has returned in a run in which it created the
\* container, exactly one stop was issued for it, whatever the exit path.
\* The code returns from TestContext::new with `?` when the start or the
\* health check fails, and issues no stop on those paths.
C1_StoppedOnceOnEveryExit ==
    (pc = "returned" /\ created > 0) => stops = 1

\* C2: when a test case failed and the stop of the container fails too,
\* run_tests still returns the failure of the test case.  The code returns
\* the stop error from `context.close().await?` and drops test_result.
C2_TestFailureIsPrimary ==
    (pc = "returned" /\ test_result.kind \in CaseFailures) => ret = test_result

\* C3: once case k has failed, no fixture of a later case is submitted, no
\* further event is consumed, and the result of the run is the error of
\* case k.  The last part fails with the stop error of C2.
C3_FailFast ==
    test_result # Ok =>
        /\ test_result.case = i
        /\ \A k \in 1..Len(posts) : posts[k] <= test_result.case
        /\ \A k \in 1..Len(consumed) : consumed[k].case <= test_result.case
        /\ pc \in {"close", "returned", "cancelled"}
        /\ pc = "returned" => ret = test_result

\* The engine has emitted exactly one event per fixture it received, in the
\* order it received them, each equal to the expected fixture of its case.
EngineFaithful ==
    /\ Len(accepted) = Len(inbox)
    /\ \A k \in 1..Len(accepted) :
          /\ accepted[k].src = inbox[k]
          /\ accepted[k].val = test_cases[inbox[k]].expected

C5_StrictlySequential ==
    /\ \A k \in 1..Len(posts) : posts[k] = k
    /\ Len(posts) <= i
    /\ Len(consumed) <= Len(posts)
    /\ Len(posts) <= Len(consumed) + 1
    /\ pc \in {"read_input", "post"} => (Len(posts) = i - 1 /\ Len(consumed) = i - 1)
    /\ pc = "recv" => (Len(posts) = i /\ Len(consumed) = i - 1)
    /\ pc = "compare" => (Len(posts) = i /\ Len(consumed) = i)

\* the second fixture is out and its event has not been received
C5_Witness ==
    pc = "recv" /\ i = 2 /\ Len(posts) = 2 /\ Len(consumed) = 1

\* The engine emits at most one event per fixture it received, in the
\* order it received them, and nothing else.
EngineOrdered ==
    /\ Len(accepted) <= Len(inbox)
    /\ \A k \in 1..Len(accepted) : accepted[k].src = inbox[k]

\* C6: provided the engine emits one event per submitted fixture in
\* submission order, the k-th event the collector accepted is the k-th
\* event the driver received, and it is the event the engine produced for
\* the input of the case it is compared in.
C6_CorrelationByOrder ==
    EngineOrdered =>
        \A k \in 1..Len(consumed) :
            /\ consumed[k].ev = k
            /\ accepted[consumed[k].ev].src = consumed[k].case

\* two events went through the collector and the queue to their cases
C6_Witness ==
    EngineOrdered /\ Len(consumed) = 2 /\ pc = "compare"

\* C7: a fixture is submitted only after the health check has seen the
\* container healthy; a failed health check means no fixture at all.
C7_HealthGate ==
    /\ Len(posts) > 0 => (health_result = "ok" /\ hlog # <<>> /\ hlog[Len(hlog)] = "healthy")
    /\ Len(inbox) > 0 => Len(posts) > 0
    /\ health_result \notin {"pending", "ok"} => (posts = <<>> /\ pc = "returned")

\* a fixture was submitted after the container was seen starting first
C7_Witness ==
    Len(posts) > 0 /\ Len(hlog) > 1


\* polls and sleeps healthy() has made so far
Polls == Cardinality({k \in 1..Len(hlog) : hlog[k] # "sleep"})
Sleeps == Cardinality({k \in 1..Len(hlog) : hlog[k] = "sleep"})

\* every poll so far has reported "starting"
AllStarting == \A k \in 1..Len(hlog) : hlog[k] \in {"starting", "sleep"}

\* polls and sleeps alternate, starting with a poll, and each sleep lasted
\* `delay`
SleepsBetweenPolls ==
    /\ \A k \in 1..Len(hlog) : (hlog[k] = "sleep") <=> (k % 2 = 0)
    /\ slept = delay * Sleeps

\* C8 as stated: for every value of retries, healthy() on a container that
\* always reports "starting" polls exactly `retries` times, sleeps `delay`
\* between consecutive polls and not after the last, and fails with the
\* retry-exhaustion error.  With retries = 0 the loop still polls once.
C8_ExactlyRetriesPolls ==
    /\ AllStarting => (Polls <= retries /\ SleepsBetweenPolls)
    /\ (AllStarting /\ health_result # "pending") =>
          /\ health_result = "exhausted"
          /\ Polls = retries
          /\ Sleeps = Polls - 1

\* C8 amended: healthy() on a container that always reports "starting"
\* polls exactly max(1, retries) times (retries times for retries >= 1,
\* once for retries = 0), sleeps `delay` between consecutive polls and not
\* after the last, and fails with the retry-exhaustion error.
C8_ExactlyMaxOneRetriesPolls ==
    LET bound == IF retries >= 1 THEN retries ELSE 1
    IN  /\ AllStarting => (Polls <= bound /\ SleepsBetweenPolls)
        /\ (AllStarting /\ pc = "health_sleep") => Polls < bound
        /\ (AllStarting /\ health_result # "pending") =>
              /\ health_result = "exhausted"
              /\ Polls = bound
              /\ Sleeps = Polls - 1
              /\ hlog[Len(hlog)] = "starting"

\* the retries were exhausted after three or more polls
C8_Witness ==
    health_result = "exhausted" /\ retries >= 3 /\ Polls = retries /\ AllStarting

\* C9: a poll that finds no health field, or a status other than
\* "starting" and "healthy", is the last step of healthy(): the check has
\* failed, with no sleep and no poll after it, however many attempts were
\* left; on the first poll this means zero sleeps.
C9_FailsAtOnceOnAbsentOrOther ==
    \A k \in 1..Len(hlog) :
        hlog[k] \in {"absent", "unhealthy", "none"} =>
            /\ k = Len(hlog)
            /\ health_result = IF hlog[k] = "absent" THEN "absent" ELSE "unexpected"
            /\ pc = "returned"
            /\ ret = Res("health", 0)
            /\ slept = delay * Sleeps
            /\ k = 1 => slept = 0

\* the health field was absent at a poll after which attempts were left
C9_Witness ==
    /\ Len(hlog) >= 3
    /\ hlog[Len(hlog)] = "absent"
    /\ curr_retries + 1 < retries
    /\ health_result = "absent"

\* C10: healthy() returns success exactly when a poll has observed
\* "healthy", and that poll is its last step: it never succeeds on elapsed
\* attempts, a missing field or another status.
C10_SuccessIffObservedHealthy ==
    /\ health_result = "ok" <=> (\E k \in 1..Len(hlog) : hlog[k] = "healthy")
    /\ \A k \in 1..Len(hlog) : hlog[k] = "healthy" => k = Len(hlog)
    /\ health_result = "ok" => (pc \notin {"health", "health_sleep"} /\ ret.kind # "health")
    /\ health_result \notin {"ok", "pending"} => pc = "returned"

\* success after the container was seen starting twice
C10_Witness ==
    health_result = "ok" /\ Len(hlog) = 5 /\ hlog[5] = "healthy"


\* C11: when the driver awaits the event of a submitted fixture on a channel
\* that is empty and has no Sender left, run_single_test fails with the
\* error "Logstash did not send output event data": the case goes from the
\* recv() straight to the failure, without an event consumed, the expected
\* file read or the comparison made, and the failure is not a mismatch.
C11_ClosedQueueIsNoOutput ==
    /\ [](test_result.kind = "no_output" =>
            /\ test_result.case = i
            /\ pc \in {"close", "returned", "cancelled"}
            /\ Len(consumed) = i - 1
            /\ Len(posts) = i
            /\ ret.kind # "mismatch")
    /\ [][(pc = "recv" /\ queue = <<>> /\ ~SendersAlive /\ pc' # pc) =>
            \/ pc' = "cancelled"
            \/ /\ pc' = "close"
               /\ test_result' = Res("no_output", i)
               /\ consumed' = consumed]_vars

\* the first case found the channel closed and empty after the engine got
\* its fixture
C11_Witness ==
    test_result = Res("no_output", 1) /\ pc = "returned" /\ inbox = <<1>>


\* default_runner has returned or panicked after it launched the two tasks
RunOver == runner \in {"ok", "panic"}

\* C12 as stated: default_runner never returns before run_tests has
\* returned, whatever the server task does.  select! also returns when the
\* server task has ended, and drops the run_tests future.
C12_OnlyDriverEndsRun ==
    RunOver => pc = "returned"

\* C12 amended: default_runner returns before run_tests has returned only
\* when the server task has ended first (a failed bind); while the server
\* task runs, the run is over only once run_tests has returned.
C12_DriverOrDeadServerEndsRun ==
    /\ RunOver => \/ pc = "returned"
                  \/ pc = "cancelled" /\ server = "dead" /\ runner = "ok" /\ ret = NoRet
    /\ (RunOver /\ server \in {"spawned", "serving"}) => pc = "returned"
    /\ runner = "racing" => pc \notin {"idle", "returned", "cancelled"}
    /\ pc = "returned" => (RunOver /\ runner = IF ret = Ok THEN "ok" ELSE "panic")

\* the server task ended first and the run is over with the driver waiting
\* for the start of the container
C12_Witness ==
    RunOver /\ pc = "cancelled" /\ created = 1 /\ started = 0


\* C13: when the server task ends first and thereby ends the run, a stop
\* is still issued for a container the driver has created.  select! drops
\* the run_tests future where it stands; nothing stops the container.
C13_StopIssuedWhenServerEndsRun ==
    (pc = "cancelled" /\ created > 0) => stops >= 1


\* concatenation of the contents of the first n rule files, in list order
RECURSIVE RuleConcat(_)
RuleConcat(n) == IF n = 0 THEN <<>> ELSE RuleConcat(n - 1) \o files[rules[n]]

\* C14: the assembled pipeline file is render(input.conf), then the bytes
\* of every rule file once, unmodified and in list order with nothing in
\* between, then render(output.conf); that file is the logstash.conf entry
\* of the archive.  While the rules are being copied the file holds the
\* rendered input and the rules copied so far.
C14_PipelineIsConcatenation ==
    /\ apc = "rules" =>
          pipeline = Render(input_template) \o RuleConcat(rule_idx - 1)
    /\ apc \in {"append_pipeline", "scripts", "patterns", "finish", "done"} =>
          pipeline = Render(input_template) \o RuleConcat(Len(rules))
                        \o Render(output_template)
    /\ apc \in {"scripts", "patterns", "finish", "done"} =>
          /\ Cardinality({k \in 1..Len(ark) : ark[k].name = PIPELINE_NAME}) = 1
          /\ \A k \in 1..Len(ark) :
                ark[k].name = PIPELINE_NAME => ark[k].data = pipeline

\* a second build over the stale pipeline file of the first, with two
\* different rule files, one of them holding template syntax
C14_Witness ==
    /\ apc = "done"
    /\ builds = MaxBuilds
    /\ Len(rules) = 2
    /\ rules[1] # rules[2]
    /\ files[rules[1]] = <<"filter{", "{{input_port}}", "}">>
    /\ files[rules[2]] = <<"filter{a}">>

\* C15: two builds from identical inputs give identical archives: the same
\* entries in the same order.  The config templates are appended in the
\* iteration order of a HashMap, which differs between the two builds.
C15_RepeatBuildIdentical ==
    (apc = "done" /\ builds = MaxBuilds) => ark = ark_prev


C17_MismatchReportNamesCaseAndPayloads ==
    (pc = "returned" /\ test_result.kind = "mismatch") =>
        LET actual == accepted[consumed[test_result.case].ev].val
            expected == test_cases[test_result.case].expected
        IN /\ ret = Res("mismatch", test_result.case)
           /\ MismatchError(verbose, "diff", actual, expected).payloads
                 = <<actual, expected>>


\* ids of the events in the queue, and of the events the driver received
QueueIds == {queue[k] : k \in 1..Len(queue)}
ConsumedIds == {consumed[k].ev : k \in 1..Len(consumed)}

\* C18: a request is answered 204 only in the step that completes the
\* enqueue of its payload, and its payload is enqueued once: every answered
\* request is an accepted one whose event is in the queue, was received by
\* the driver, or was still buffered when the Receiver was dropped; no
\* event is in the queue twice or both queued and received; the queue
\* grows only by the payload of a waiting handler, which is answered in
\* that step and never sends again.
C18_ReplyOnlyAfterOneEnqueue ==
    /\ [](/\ replied \subseteq 1..Len(accepted)
          /\ replied \cap handlers = {}
          /\ Cardinality(replied) = Len(queue) + Len(consumed) + dropped
          /\ Cardinality(QueueIds) = Len(queue)
          /\ Cardinality(ConsumedIds) = Len(consumed)
          /\ QueueIds \cap ConsumedIds = {}
          /\ RxAlive => replied = QueueIds \cup ConsumedIds)
    /\ [][/\ \A h \in replied' \ replied :
                /\ h \in handlers /\ h \notin handlers'
                /\ queue' = Append(queue, h)
          /\ Len(queue') > Len(queue) =>
                \E h \in handlers :
                   /\ queue' = Append(queue, h)
                   /\ replied' = replied \cup {h}
                   /\ handlers' = handlers \ {h}
          /\ replied \subseteq replied']_vars

\* two requests answered: the event of the first was received by the
\* driver, the event of the second is in the queue
C18_Witness ==
    /\ replied = {1, 2}
    /\ ConsumedIds = {1}
    /\ queue = <<2>>


\* C19: the queue never holds more than CHANNEL_CAPACITY events.  While it
\* is full no payload is enqueued and no request is answered: the handlers
\* stay suspended until the driver receives an event.  As long as the
\* Receiver lives the queue changes only by a payload appended at its back
\* or by its head going to the driver: nothing is dropped or overwritten.
C19_BoundedQueueSuspendsSender ==
    /\ [](Len(queue) <= CHANNEL_CAPACITY)
    /\ [][Len(queue) = CHANNEL_CAPACITY =>
             /\ replied' = replied
             /\ handlers \subseteq handlers'
             /\ Len(queue') <= Len(queue)]_vars
    /\ [][(RxAlive' /\ queue' # queue) =>
             \/ \E h \in handlers : queue' = Append(queue, h)
             \/ /\ queue # <<>>
                /\ queue' = Tail(queue)
                /\ consumed' = Append(consumed, [case |-> i, ev |-> Head(queue)])]_vars

\* the queue was full with a handler suspended; the driver has received
\* one event, the handler was answered and the queue is full again
C19_Witness ==
    /\ Len(queue) = CHANNEL_CAPACITY
    /\ Len(consumed) = 1
    /\ Cardinality(replied) = CHANNEL_CAPACITY + 1


\* C20: a failed enqueue ends the collector: once a handler has failed to
\* send, the server task is no longer running and no request is accepted.
\* The unwrap in root() panics the task of that one connection only; the
\* accept loop of the server goes on and further requests are accepted.
C20_EnqueueFailureStopsCollector ==
    handler_panics # {} => server = "dead"


\* positions of the error items of the build event stream
ErrPositions == {k \in 1..Len(builder_stream) : IsErr(builder_stream[k])}
FirstErr == CHOOSE k \in ErrPositions : \A j \in ErrPositions : k <= j
\* positions of the items that carry an image identifier
IdPositions == {k \in 1..Len(builder_stream) : IdOf(builder_stream[k]) # "none"}
\* positions of the aux ImageId items, with or without an identifier
AuxPositions == {k \in 1..Len(builder_stream) : IsAux(builder_stream[k])}
LastAux == CHOOSE k \in AuxPositions : \A j \in AuxPositions : j <= k
BuildReturned == bpos > 0 /\ build_ret # NoBuild

\* C21: the failures of build_container_image are told apart: a stream
\* whose first error is a DockerStreamError gives the stream-error result,
\* one whose first error is any other error gives the unspecified-error
\* result, and one that ends with no error and no image identifier gives
\* "No container image ID was found"; none of the three carries an Image.
C21_BuildFailuresDistinct ==
    BuildReturned =>
        /\ ErrPositions # {} =>
              build_ret = IF builder_stream[FirstErr] = "stream_error"
                            THEN BuildRes("stream_error", "none")
                            ELSE BuildRes("unspecified_error", "none")
        /\ (ErrPositions = {} /\ IdPositions = {}) =>
              build_ret = BuildRes("no_image_id", "none")
        /\ build_ret.kind \in {"stream_error", "unspecified_error", "no_image_id"} =>
              build_ret.id = "none"
        /\ build_ret.kind = "image" => build_ret.id # "none"

\* a transport error after progress events
C21_Witness ==
    /\ BuildReturned
    /\ builder_stream = <<"info", "other_error", "stream_error">>
    /\ build_ret.kind = "unspecified_error"

\* C27: once an item with an image identifier was received the build
\* succeeds with that identifier, whatever follows in the stream.
C27_SucceedsOnceIdReceived ==
    (BuildReturned /\ \E k \in IdPositions : k < bpos) =>
        \E k \in IdPositions :
           /\ k < bpos
           /\ build_ret = BuildRes("image", IdOf(builder_stream[k]))

\* C27 as amended: the loop reads the stream to its end.  The build
\* succeeds if and only if the stream holds no error item and its last aux
\* ImageId item carries an identifier, and it returns that identifier; an
\* error item fails the build also after an identifier was received, and
\* then nothing after the error is read.
C27_SucceedsIffStreamEndsWithId ==
    BuildReturned =>
        /\ build_ret.kind = "image" <=>
              /\ ErrPositions = {}
              /\ AuxPositions # {}
              /\ IdOf(builder_stream[LastAux]) # "none"
        /\ build_ret.kind = "image" =>
              /\ build_ret.id = IdOf(builder_stream[LastAux])
              /\ bpos = Len(builder_stream) + 1
        /\ ErrPositions # {} => bpos = FirstErr + 1

\* an identifier was received, then a progress item and an error: the
\* build fails
C27_Witness ==
    /\ BuildReturned
    /\ builder_stream = <<"id_a", "info", "stream_error">>
    /\ build_ret = BuildRes("stream_error", "none")


\* entries of the archive with the given name
EntriesNamed(name) == {k \in 1..Len(ark) : ark[k].name = name}
\* entries of the archive in the directory dir
EntriesUnder(dir) == {k \in 1..Len(ark) : Len(ark[k].name) = 2 /\ ark[k].name[1] = dir[1]}

\* C22: every archive that build_image_archive returns holds one empty
\* placeholder entry in scripts/ and one in patterns/, whether or not
\* files were supplied, and for every supplied script or pattern one
\* entry in its directory, named by the base name of the file and holding
\* its contents; the two directories hold nothing else.
C22_PlaceholdersAndAuxFiles ==
    apc = "done" =>
        /\ \A dir \in {SCRIPTS_DIR, PATTERNS_DIR} :
              /\ Cardinality(EntriesNamed(dir \o <<".gitkeep">>)) = 1
              /\ \A k \in EntriesNamed(dir \o <<".gitkeep">>) : ark[k].data = <<>>
        /\ \A j \in 1..Len(scripts) :
              /\ Cardinality(EntriesNamed(SCRIPTS_DIR \o <<FileName(scripts[j])>>)) = 1
              /\ \A k \in EntriesNamed(SCRIPTS_DIR \o <<FileName(scripts[j])>>) :
                    ark[k].data = files[scripts[j]]
        /\ \A j \in 1..Len(patterns) :
              /\ Cardinality(EntriesNamed(PATTERNS_DIR \o <<FileName(patterns[j])>>)) = 1
              /\ \A k \in EntriesNamed(PATTERNS_DIR \o <<FileName(patterns[j])>>) :
                    ark[k].data = files[patterns[j]]
        /\ Cardinality(EntriesUnder(SCRIPTS_DIR)) = Len(scripts) + 1
        /\ Cardinality(EntriesUnder(PATTERNS_DIR)) = Len(patterns) + 1

\* an archive built from two scripts and no pattern
C22_Witness ==
    /\ apc = "done"
    /\ Len(scripts) = 2
    /\ patterns = <<>>
    /\ EntriesNamed(<<"scripts", "b.rb">>) # {}
    /\ EntriesNamed(<<"patterns", ".gitkeep">>) # {}


\* C23: a fixture whose POST the engine answers with a non-success status
\* is a failed submission, and the driver does not await an event for it:
\* the driver is at recv() only after a response with a success status.
\* send() returns Ok for any status and the status is never looked at.
C23_NonSuccessStatusFailsCase ==
    pc = "recv" => response_status = "2xx"


\* C24: the wait for an event has no timeout.  While the driver is at
\* recv(), the queue stays empty and a Sender stays alive (the collector
\* runs), the driver does not move: it reports no failure, submits no
\* further fixture, issues no stop, and default_runner does not return.
C24_NoTimeoutOnWait ==
    [][(pc = "recv" /\ queue = <<>> /\ queue' = <<>>
          /\ SendersAlive /\ SendersAlive') =>
             /\ pc' = "recv"
             /\ i' = i
             /\ test_result' = test_result
             /\ ret' = ret
             /\ posts' = posts
             /\ stops' = stops
             /\ runner' = "racing"]_vars

\* the driver waits for the event of the first of two submitted fixtures;
\* the engine took the fixture and has posted nothing
C24_Witness ==
    /\ pc = "recv"
    /\ queue = <<>>
    /\ server = "serving"
    /\ N = 2
    /\ i = 1
    /\ inbox = <<1>>
    /\ accepted = <<>>
    /\ runner = "racing"


\* C25: default_runner races the two tasks and joins neither.  The step in
\* which run_tests returns ends the run, whatever the server task does;
\* once the server task is dead the run can end without a further step of
\* the driver; and after the run has ended default_runner changes neither
\* task: a server left serving goes on serving, a cancelled driver stays
\* where it was dropped.
C25_RaceWithoutJoin ==
    /\ [](pc = "returned" => RunOver)
    /\ []((server = "dead" /\ runner = "racing") => ENABLED ServerWins)
    /\ [][RunOver => /\ runner' = runner
                     /\ pc' = pc
                     /\ server = "serving" => server' = "serving"]_vars
    /\ [][(~RunOver /\ RunOver') =>
             \/ pc # "returned" /\ pc' = "returned" /\ server' = server
             \/ server = "dead" /\ pc' = "cancelled" /\ ret' = NoRet]_vars

\* the run has ended with the return of run_tests while the server task
\* serves and one of its handlers is still running
C25_Witness ==
    /\ RunOver
    /\ pc = "returned"
    /\ server = "serving"
    /\ handlers # {}


\* C26: the order of the steps of one run.  The container is created at
\* most once and only after the image was built, started at most once and
\* only after it was created, polled for its health only after it was
\* started; fixtures are submitted only after the health check succeeded,
\* and the one stop comes after all of that, with the return of run_tests.
\* A failed build leaves no container, and after the stop nothing is
\* created, started or submitted.
C26_LifecycleOrder ==
    /\ [](/\ created <= 1 /\ started <= 1 /\ stops <= 1
          /\ created > 0 => /\ pc \notin {"idle", "connect", "build"}
                            /\ ret.kind \notin {"connect", "build"}
          /\ started <= created
          /\ hlog # <<>> => started = 1
          /\ posts # <<>> => health_result = "ok"
          /\ stops > 0 => /\ health_result = "ok"
                          /\ pc = "returned"
          /\ ret.kind = "build" =>
                (created = 0 /\ started = 0 /\ hlog = <<>> /\ posts = <<>> /\ stops = 0))
    /\ [][stops > 0 => /\ created' = created
                       /\ started' = started
                       /\ hlog' = hlog
                       /\ posts' = posts
                       /\ stops' = stops]_vars
    /\ [][/\ created' > created => pc = "create"
          /\ started' > started => (pc = "start" /\ created = 1)
          /\ hlog' # hlog => started = 1
          /\ posts' # posts => (health_result = "ok" /\ stops = 0)
          /\ stops' > stops => (health_result = "ok" /\ pc = "close")]_vars

\* a run of two test cases that went through every step
C26_Witness ==
    /\ created = 1
    /\ started = 1
    /\ Len(posts) = 2
    /\ stops = 1
    /\ ret = Ok


\* C28: the sleep of healthy() holds up the driver only.  While the driver
\* sleeps between two polls and the server serves, a request of the engine
\* can be accepted, and a handler that waits to send can enqueue its event
\* and reply as long as the queue is not full; such a step leaves the
\* driver in its sleep.
C28_SleepDoesNotBlockCollector ==
    /\ []((pc = "health_sleep" /\ server = "serving" /\ Len(accepted) < MaxEvents)
             => ENABLED EngineEmit)
    /\ []((pc = "health_sleep" /\ handlers # {} /\ Len(queue) < CHANNEL_CAPACITY)
             => ENABLED HandlerSend)
    /\ [][(pc = "health_sleep" /\ replied' # replied) =>
             /\ pc' = "health_sleep"
             /\ \E h \in handlers : /\ queue' = Append(queue, h)
                                    /\ replied' = replied \cup {h}]_vars

\* the driver sleeps after its second poll; one request was answered and
\* its event is in the queue, another was accepted and waits to send
C28_Witness ==
    /\ pc = "health_sleep"
    /\ hlog = <<"starting", "sleep", "starting">>
    /\ replied = {1}
    /\ queue = <<1>>
    /\ handlers = {2}


\* C29: a failure that run_tests reports reaches the caller of
\* default_runner as a returned Err, neither as a panic nor as a success.
\* default_runner applies expect() to the result of run_tests and panics.
C29_FailureReturnedAsError ==
    (pc = "returned" /\ ret # Ok) => runner = "err"

\* C30: default_runner returns success only if run_tests returned success,
\* every test case having been submitted and matched.  The select! branch
\* of the server task is empty, and Ok(()) follows it.
C30_SuccessOnlyIfTestsPassed ==
    runner = "ok" =>
        /\ pc = "returned"
        /\ ret = Ok
        /\ Len(posts) = N
        /\ Len(consumed) = N


\* the larger of two numbers
Max(a, b) == IF a >= b THEN a ELSE b

\* C34: healthy() ends after a bounded number of polls: whatever statuses
\* are reported and whatever retries is, it makes at most max(1, retries)
\* polls and at most max(0, retries - 1) sleeps, polls and sleeps alternate,
\* and while it has not returned its next step is always possible; a
\* failed inspect call is its last step, returned as the error without
\* another poll or sleep.
C34_BoundedPollsAndSleeps ==
    /\ Polls <= Max(1, retries)
    /\ Sleeps <= Max(0, retries - 1)
    /\ Len(hlog) <= 2 * Max(1, retries) - 1
    /\ SleepsBetweenPolls
    /\ health_result = "pending" <=> pc \in {"health", "health_sleep"}
    /\ pc = "health" => ENABLED HealthPoll
    /\ pc = "health_sleep" => (ENABLED HealthSleep /\ Polls < Max(1, retries))
    /\ \A k \in 1..Len(hlog) :
          hlog[k] = "inspect_error" =>
              /\ k = Len(hlog)
              /\ health_result = "inspect_error"
              /\ pc = "returned"
              /\ ret = Res("health", 0)

\* the inspect call failed at the last poll the retry bound allows
C34_Witness ==
    /\ retries >= 3
    /\ Polls = retries
    /\ Sleeps = retries - 1
    /\ hlog[Len(hlog)] = "inspect_error"
    /\ health_result = "inspect_error"


\* C33: with an empty rule list or an empty test-case list default_runner
\* fails before the channel exists and before either task is launched: it
\* is at its start or has returned the error, the server task was never
\* spawned (no listener bound, no request accepted), run_tests was never
\* polled (no Docker call, hence no archive, image or container), and the
\* queue never held anything.
C33_EmptyInputsFailBeforeLaunch ==
    (rules_empty \/ N = 0) =>
        /\ runner \in {"start", "err"}
        /\ server = "none"
        /\ pc = "idle"
        /\ ret = NoRet
        /\ created = 0 /\ started = 0 /\ stops = 0
        /\ hlog = <<>>
        /\ posts = <<>> /\ inbox = <<>>
        /\ accepted = <<>> /\ handlers = {}
        /\ queue = <<>> /\ consumed = <<>> /\ dropped = 0
        /\ ~ENABLED ServerBind
        /\ ~ENABLED DockerConnect
        /\ ~ENABLED BuildImage
        /\ ~ENABLED CreateContainer

\* default_runner has failed on rules without any test case
C33_Witness ==
    /\ ~rules_empty
    /\ N = 0
    /\ runner = "err"
    /\ server = "none"
    /\ pc = "idle"


\* the driver step in which run_single_test returns before its recv()
RunSingleTestFailsEarly == pc \in {"read_input", "post"} /\ pc' = "close"

\* C32: when the input fixture cannot be read or parsed, or the POST fails
\* at transport level, run_single_test returns that error for the current
\* case without a recv(): the step leaves the queue, the consumed events
\* and output_data as they were, and no event is ever consumed for the
\* case that failed this way.
C32_EarlyFailureLeavesQueue ==
    /\ [][RunSingleTestFailsEarly =>
              /\ test_result = Ok
              /\ test_result' = Res(IF pc = "read_input" THEN "input" ELSE "send", i)
              /\ queue' = queue
              /\ consumed' = consumed
              /\ dropped' = dropped
              /\ output_data' = output_data]_vars
    /\ [](test_result.kind \in {"input", "send"} =>
              \A k \in 1..Len(consumed) : consumed[k].case # test_result.case)

\* the POST of the second case failed while an event was buffered, and the
\* event is still in the queue
C32_Witness ==
    /\ pc = "close"
    /\ test_result = Res("send", 2)
    /\ Len(consumed) = 1
    /\ queue # <<>>
    /\ stops = 0


\* C31: in a run whose environment answers (every container-runtime call
\* returns, the container is healthy within the retry bound, every POST
\* gets a response, the engine emits the event of every fixture and the
\* collector is scheduled), run_tests eventually issues the stop and
\* returns, and it never submits more than N fixtures for N test cases.
C31_RunTestsStopsAndReturns ==
    /\ <>(pc = "returned" /\ stops = 1)
    /\ [](Len(posts) <= N /\ stops <= 1)

\* run_tests has returned success after submitting every one of two cases
C31_Witness ==
    /\ pc = "returned"
    /\ stops = 1
    /\ ret = Ok
    /\ N = 2
    /\ posts = <<1, 2>>

====
